---------------------------- MODULE Spec2Model ----------------------------
(***************************************************************************)
(* A model of nfa2regex: the NFA data structure (NFA, NFANode, NFAEdge),   *)
(* the state-removal conversion ToRegexWithConfig, the simulator           *)
(* NFA.Match and the string combinators orJoin and addKleenStar.           *)
(*                                                                         *)
(* Go strings (edge values, regular expressions) are sequences of          *)
(* one-character strings, so that concatenation, length and parsing are    *)
(* computed; node names, checkpoint names and error messages are strings.  *)
(* A *NFANode is an index into heap, the sequence of node records ever     *)
(* allocated; 0 is the nil pointer.  Edge records are never written after  *)
(* their creation, so an edge is modelled by its value.                    *)
(***************************************************************************)
EXTENDS Integers, Sequences, FiniteSets, TLC

VARIABLES
    heap,          \* Seq of NFANode records; a pointer is an index
    nfa,           \* the caller's NFA: [Nodes: name -> pointer, Edges: Seq]
    pc,            \* position of the caller / of ToRegexWithConfig
    work,          \* the conversion's shallow copy (nfa after line 563)
    initialNode,   \* ToRegexWithConfig's local initialNode (pointer)
    terminalNode,  \* ToRegexWithConfig's local terminalNode (pointer)
    steps,         \* the StepCallback invocations: checkpoint name, error returned
    removed,       \* names removed by the elimination loop, in order
    res,           \* the returned string
    err,           \* the returned error (nil when there is none)
    before,        \* the caller's heap and NFA when the call started
    prev,          \* outcome of the previous call on the same automaton
    calls,         \* number of ToRegex calls the caller still makes
    arg,           \* the nfa argument of the last ToRegex call: "nil" or "nfa"
    app            \* the last call of Match, orJoin or addKleenStar by the
                   \* caller: function, arguments, result

vars == <<heap, nfa, pc, work, initialNode, terminalNode, steps, removed,
          res, err, before, prev, calls, arg, app>>

-----------------------------------------------------------------------------
(* Bounds of the model *)

\* number of AddEdge calls the caller makes while building the automaton
MaxEdges == 2
\* length of the input strings and depth of the walks the claims quantify over
MaxDepth == 3

\* node names the caller uses; the two reserved names are ordinary strings
NodeNames == {"1", "2", "__initial__", "__terminal__"}
\* the caller's automaton has its nodes in one of these sets of names
NameSets == {{"1", "2"}, {"1", "__initial__"}, {"1", "__terminal__"}}
\* the symbols of the alphabet
Symbols == {"a", "b"}
\* edge values the caller uses: the empty string and single symbols
EdgeValues == {<<>>} \cup {<<c>> : c \in Symbols}

nil == "<nil>"
NoNFA == [Nodes |-> <<>>, Edges |-> <<>>]
\* the value of app before the first call
NoApp == [fn |-> "none"]
\* the value of prev before the second call
NoCall == [res |-> <<>>, err |-> "none", steps |-> <<>>,
           before |-> [heap |-> <<>>, nfa |-> NoNFA]]

-----------------------------------------------------------------------------
(* Strings *)

\* the code points of the model that UTF-8 encodes in two bytes; every other
\* symbol of the model is ASCII
TwoByte == {"U+00E9"}

\* utf8.RuneLen: the number of bytes that encode the code point c
RuneLen(c) == IF c \in TwoByte THEN 2 ELSE 1

RECURSIVE len(_)
\* len(s) of a Go string: its number of bytes
len(s) == IF s = <<>> THEN 0 ELSE RuneLen(Head(s)) + len(Tail(s))

RECURSIVE Join(_, _)
\* strings.Join(strs, sep)
Join(strs, sep) ==
    IF Len(strs) = 0 THEN <<>>
    ELSE IF Len(strs) = 1 THEN strs[1]
    ELSE strs[1] \o sep \o Join(Tail(strs), sep)

\* orJoin that keeps the empty strings
orJoin_KeepsEmpty(inputStrs) ==
    LET strs == inputStrs
    IN  CASE Len(strs) = 0 -> <<>>
          [] Len(strs) = 1 -> strs[1]
          [] OTHER -> <<"(">> \o Join(strs, <<"|">>) \o <<")">>

\* orJoin without the parentheses around the alternation
orJoin_NoParens(inputStrs) ==
    LET strs == SelectSeq(inputStrs, LAMBDA s : len(s) > 0)
    IN  CASE Len(strs) = 0 -> <<>>
          [] Len(strs) = 1 -> strs[1]
          [] OTHER -> Join(strs, <<"|">>)

\* orJoin: an "or" statement of the non-empty strings
orJoin(inputStrs) ==
    LET strs == SelectSeq(inputStrs, LAMBDA s : len(s) > 0)
    IN  CASE Len(strs) = 0 -> <<>>
          [] Len(strs) = 1 -> strs[1]
          [] OTHER -> <<"(">> \o Join(strs, <<"|">>) \o <<")">>

\* addKleenStar that wraps whatever noWrap says
addKleenStar_FlagIgnored(s, noWrap) ==
    CASE len(s) = 0 -> <<>>
      [] len(s) = 1 -> s \o <<"*">>
      [] OTHER -> <<"(">> \o s \o <<")", "*">>

\* addKleenStar that wraps a single symbol too
addKleenStar_AlwaysWrapped(s, noWrap) ==
    CASE len(s) = 0 -> <<>>
      [] OTHER -> IF Len(noWrap) > 0 /\ noWrap[1] THEN s \o <<"*">>
                  ELSE <<"(">> \o s \o <<")", "*">>

\* addKleenStar(s, noWrap...): noWrap is the sequence of the variadic arguments
addKleenStar(s, noWrap) ==
    CASE len(s) = 0 -> <<>>
      [] len(s) = 1 -> s \o <<"*">>
      [] OTHER -> IF Len(noWrap) > 0 /\ noWrap[1] THEN s \o <<"*">>
                  ELSE <<"(">> \o s \o <<")", "*">>

-----------------------------------------------------------------------------
(* The NFA data structure.  An automaton value m is a record              *)
(* [heap, Nodes, Edges]: the map, the edge list and the heap they point    *)
(* into; each method returns the automaton after the call.                 *)

NFANode(name, isInitial, isTerminal) ==
    [Name |-> name, IsInitial |-> isInitial, IsTerminal |-> isTerminal]

NFAEdge(src, dst, value) == [SrcNode |-> src, DstNode |-> dst, Value |-> value]

\* nfa.Nodes[name], nil (0) when the key is absent
Lookup(nodes, name) == IF name \in DOMAIN nodes THEN nodes[name] ELSE 0

\* nfa.Nodes[name] = node
MapSet(nodes, name, node) ==
    [n \in DOMAIN nodes \cup {name} |-> IF n = name THEN node ELSE nodes[n]]

\* delete(nfa.Nodes, name)
MapDelete(nodes, name) == [n \in DOMAIN nodes \ {name} |-> nodes[n]]

\* NewNFA()
NewNFA == [heap |-> <<>>, Nodes |-> <<>>, Edges |-> <<>>]

\* GetOrCreateNode that does not register the node it creates
GetOrCreateNode_Unregistered(m, name) ==
    IF Lookup(m.Nodes, name) # 0
    THEN [m |-> m, node |-> m.Nodes[name]]
    ELSE [m |-> [m EXCEPT !.heap = Append(m.heap, NFANode(name, FALSE, FALSE))],
          node |-> Len(m.heap) + 1]

\* GetOrCreateNode: the automaton after the call, and the node returned
GetOrCreateNode(m, name) ==
    IF Lookup(m.Nodes, name) # 0
    THEN [m |-> m, node |-> m.Nodes[name]]
    ELSE LET h == Append(m.heap, NFANode(name, FALSE, FALSE))
         IN  [m |-> [m EXCEPT !.heap = h, !.Nodes = MapSet(m.Nodes, name, Len(h))],
              node |-> Len(h)]

\* AddEdge that appends nothing when the automaton already has the edge
AddEdge_Deduplicates(m, srcName, dstName, value) ==
    LET s == GetOrCreateNode(m, srcName)
        d == GetOrCreateNode(s.m, dstName)
        edge == NFAEdge(s.node, d.node, value)
    IN  IF \E k \in 1..Len(m.Edges) : m.Edges[k] = edge THEN d.m
        ELSE [d.m EXCEPT !.Edges = Append(d.m.Edges, edge)]

AddEdge(m, srcName, dstName, value) ==
    LET s == GetOrCreateNode(m, srcName)
        d == GetOrCreateNode(s.m, dstName)
    IN  [d.m EXCEPT !.Edges = Append(d.m.Edges, NFAEdge(s.node, d.node, value))]

\* ReplaceNode that overwrites the registered record instead of registering a
\* new one
ReplaceNode_InPlace(m, name, newRecord) ==
    IF Lookup(m.Nodes, name) = 0
    THEN [m EXCEPT !.heap = Append(m.heap, newRecord),
                   !.Nodes = MapSet(m.Nodes, name, Len(m.heap) + 1)]
    ELSE [m EXCEPT !.heap[m.Nodes[name]] = newRecord]

\* ReplaceNode(name, &NFANode{...}): the new record is allocated by the caller
ReplaceNode(m, name, newRecord) ==
    LET h == Append(m.heap, newRecord)
        newNode == Len(h)
        oldNode == Lookup(m.Nodes, name)
        Rewire(edge) ==
            LET e1 == IF edge.SrcNode = oldNode
                      THEN NFAEdge(newNode, edge.DstNode, edge.Value) ELSE edge
            IN  IF e1.DstNode = oldNode
                THEN NFAEdge(e1.SrcNode, newNode, e1.Value) ELSE e1
    IN  [heap |-> h,
         Nodes |-> MapSet(m.Nodes, name, newNode),
         Edges |-> [i \in 1..Len(m.Edges) |-> Rewire(m.Edges[i])]]

\* RemoveNode that returns the remaining edges in the reverse order
RemoveNode_Reversed(m, nodeName) ==
    LET node == Lookup(m.Nodes, nodeName)
        kept == SelectSeq(m.Edges,
                    LAMBDA e : ~(e.SrcNode = node \/ e.DstNode = node))
    IN  [m EXCEPT !.Nodes = MapDelete(m.Nodes, nodeName),
                  !.Edges = [k \in 1..Len(kept) |-> kept[Len(kept) + 1 - k]]]

RemoveNode(m, nodeName) ==
    LET node == Lookup(m.Nodes, nodeName)
    IN  [m EXCEPT !.Nodes = MapDelete(m.Nodes, nodeName),
                  !.Edges = SelectSeq(m.Edges,
                      LAMBDA e : ~(e.SrcNode = node \/ e.DstNode = node))]

EdgesIn(m, nodeName) ==
    LET node == Lookup(m.Nodes, nodeName)
    IN  SelectSeq(m.Edges, LAMBDA e : e.DstNode = node)

EdgesOut(m, nodeName) ==
    LET node == Lookup(m.Nodes, nodeName)
    IN  SelectSeq(m.Edges, LAMBDA e : e.SrcNode = node)

\* ShallowCopy: new containers, the same node records
ShallowCopy(m) == [heap |-> m.heap, Nodes |-> m.Nodes, Edges |-> m.Edges]

-----------------------------------------------------------------------------
(* The caller builds the automaton: AddEdge, and the exported flags. *)

\* the caller's automaton as an automaton value
Caller == [heap |-> heap, Nodes |-> nfa.Nodes, Edges |-> nfa.Edges]

\* the working copy as an automaton value
Work == [heap |-> heap, Nodes |-> work.Nodes, Edges |-> work.Edges]

convUnchanged == UNCHANGED <<work, initialNode, terminalNode, steps, removed,
                             res, err, before, prev, calls, arg>>

\* nfa.AddEdge(src, dst, value)
CallAddEdge ==
    /\ pc = "idle"
    /\ Len(nfa.Edges) < MaxEdges
    /\ \E src \in NodeNames, dst \in NodeNames, value \in EdgeValues :
          LET m == AddEdge(Caller, src, dst, value)
          IN  /\ \E names \in NameSets : DOMAIN m.Nodes \subseteq names
              /\ heap' = m.heap
              /\ nfa' = [Nodes |-> m.Nodes, Edges |-> m.Edges]
    /\ pc' = pc
    /\ UNCHANGED app
    /\ convUnchanged

\* nfa.Nodes[name].IsInitial = true
SetInitial ==
    /\ pc = "idle"
    /\ \E name \in DOMAIN nfa.Nodes :
          /\ ~heap[nfa.Nodes[name]].IsInitial
          /\ heap' = [heap EXCEPT ![nfa.Nodes[name]].IsInitial = TRUE]
    /\ UNCHANGED <<nfa, pc, app>>
    /\ convUnchanged

\* nfa.Nodes[name].IsTerminal = true
SetTerminal ==
    /\ pc = "idle"
    /\ \E name \in DOMAIN nfa.Nodes :
          /\ ~heap[nfa.Nodes[name]].IsTerminal
          /\ heap' = [heap EXCEPT ![nfa.Nodes[name]].IsTerminal = TRUE]
    /\ UNCHANGED <<nfa, pc, app>>
    /\ convUnchanged

\* node names of the automata with longer labels
LabelNames == {"1", "2"}
\* their edge values: the empty string, single symbols and a label of two
\* symbols
LabelValues == EdgeValues \cup {<<"a", "b">>}

\* nfa.AddEdge(src, dst, value) with a value that may have two symbols
AddLabelledEdge ==
    /\ pc = "idle"
    /\ Len(nfa.Edges) < MaxEdges
    /\ \E src \in LabelNames, dst \in LabelNames, value \in LabelValues :
          LET m == AddEdge(Caller, src, dst, value)
          IN  /\ heap' = m.heap
              /\ nfa' = [Nodes |-> m.Nodes, Edges |-> m.Edges]
    /\ pc' = pc
    /\ UNCHANGED app
    /\ convUnchanged

RECURSIVE AddEdges(_, _)
\* the nfa.AddEdge calls of a constructor, in order; edges holds a
\* <<src, dst, value>> per call
AddEdges(m, edges) ==
    IF edges = <<>> THEN m
    ELSE AddEdges(AddEdge(m, edges[1][1], edges[1][2], edges[1][3]), Tail(edges))

\* nfa.Nodes[name].IsInitial = true for the names of initial, and
\* nfa.Nodes[name].IsTerminal = true for the names of terminal
SetFlags(m, initial, terminal) ==
    [m EXCEPT !.heap =
        [k \in DOMAIN m.heap |->
            [m.heap[k] EXCEPT !.IsInitial = @ \/ m.heap[k].Name \in initial,
                              !.IsTerminal = @ \/ m.heap[k].Name \in terminal]]]

\* the README's "A Simple NFA"
ExampleSimpleNFA ==
    SetFlags(AddEdges(NewNFA, <<<<"1", "1", <<"a">>>>, <<"1", "2", <<"b">>>>,
                                <<"2", "2", <<"c">>>>, <<"2", "3", <<"d">>>>,
                                <<"3", "3", <<"e">>>>, <<"3", "1", <<"x">>>>>>),
             {"1"}, {"3"})

MakeNFAManyMany ==
    SetFlags(AddEdges(NewNFA, <<<<"1", "2", <<"a">>>>, <<"2", "3", <<"b">>>>,
                                <<"2", "2", <<"l">>>>, <<"4", "2", <<"x">>>>,
                                <<"2", "5", <<"y">>>>>>),
             {"1", "4"}, {"3", "5"})

MakeSimpleNFA ==
    SetFlags(AddEdges(NewNFA, <<<<"1", "2", <<"a">>>>, <<"2", "2", <<"x">>>>,
                                <<"2", "3", <<"b">>>>>>),
             {"1"}, {"3"})

\* the caller builds one of the example automata
MakeExample ==
    /\ pc = "idle"
    /\ nfa = [Nodes |-> NewNFA.Nodes, Edges |-> NewNFA.Edges]
    /\ \E m \in {ExampleSimpleNFA, MakeNFAManyMany, MakeSimpleNFA} :
          /\ heap' = m.heap
          /\ nfa' = [Nodes |-> m.Nodes, Edges |-> m.Edges]
    /\ pc' = pc
    /\ UNCHANGED app
    /\ convUnchanged

\* number of strings in a list passed to orJoin
MaxStrs == 3

\* strings passed to orJoin and addKleenStar: "", "a", "b", a two-byte symbol,
\* "abc" and "(abc|123)"
StringSamples ==
    {<<>>, <<"a">>, <<"b">>, <<"U+00E9">>, <<"a", "b", "c">>,
     <<"(", "a", "b", "c", "|", "1", "2", "3", ")">>}

\* the lists of at most n of these strings
StringLists(n) == UNION {[1..k -> StringSamples] : k \in 0..n}

appUnchanged == UNCHANGED <<heap, nfa, pc, work, initialNode, terminalNode,
                            steps, removed, res, err, before, prev, calls, arg>>

\* orJoin(inputStrs)
CallOrJoin ==
    /\ pc = "idle"
    /\ \E inputStrs \in StringLists(MaxStrs) :
          app' = [fn |-> "orJoin", inputStrs |-> inputStrs,
                  out |-> orJoin(inputStrs)]
    /\ appUnchanged

\* addKleenStar(s), addKleenStar(s, false), addKleenStar(s, true)
CallAddKleenStar ==
    /\ pc = "idle"
    /\ \E s \in StringSamples, noWrap \in {<<>>, <<FALSE>>, <<TRUE>>} :
          app' = [fn |-> "addKleenStar", s |-> s, noWrap |-> noWrap,
                  out |-> addKleenStar(s, noWrap)]
    /\ appUnchanged

\* number of AddEdge, RemoveNode and ReplaceNode calls of a caller that uses
\* the three methods
MaxOps == 3

\* the node names and the edge values that caller uses
OpNames == {"1", "__initial__"}
OpValues == {<<>>, <<"a">>}

\* the number of these calls made so far
OpsDone == IF "n" \in DOMAIN app THEN app.n ELSE 0

\* what the caller did last: the method, its arguments, the automaton before
\* the call and the automaton after it
Called(fn, args, m) ==
    [fn |-> fn, args |-> args, pre |-> Caller, post |-> m, n |-> OpsDone + 1]

\* nfa.AddEdge(src, dst, value)
OpAddEdge ==
    /\ pc = "idle"
    /\ OpsDone < MaxOps
    /\ \E src \in OpNames, dst \in OpNames, value \in OpValues :
          LET m == AddEdge(Caller, src, dst, value)
          IN  /\ heap' = m.heap
              /\ nfa' = [Nodes |-> m.Nodes, Edges |-> m.Edges]
              /\ app' = Called("AddEdge", <<src, dst, value>>, m)
    /\ pc' = pc
    /\ convUnchanged

\* nfa.RemoveNode(nodeName), of a registered name or not
OpRemoveNode ==
    /\ pc = "idle"
    /\ OpsDone < MaxOps
    /\ \E nodeName \in OpNames :
          LET m == RemoveNode(Caller, nodeName)
          IN  /\ heap' = m.heap
              /\ nfa' = [Nodes |-> m.Nodes, Edges |-> m.Edges]
              /\ app' = Called("RemoveNode", <<nodeName>>, m)
    /\ pc' = pc
    /\ convUnchanged

\* nfa.ReplaceNode(name, &NFANode{Name: name, IsInitial: ..., IsTerminal: ...})
OpReplaceNode ==
    /\ pc = "idle"
    /\ OpsDone < MaxOps
    /\ \E name \in OpNames, isInitial \in BOOLEAN, isTerminal \in BOOLEAN :
          LET newNode == NFANode(name, isInitial, isTerminal)
              m == ReplaceNode(Caller, name, newNode)
          IN  /\ heap' = m.heap
              /\ nfa' = [Nodes |-> m.Nodes, Edges |-> m.Edges]
              /\ app' = Called("ReplaceNode", <<name, newNode>>, m)
    /\ pc' = pc
    /\ convUnchanged

-----------------------------------------------------------------------------
(* ToRegexWithConfig *)

ErrNilNFA == "NFA must be non-nil"
ErrNoInitial == "NFA has no initial node(s)"
ErrNoTerminal == "NFA has no terminal node(s)"
ErrNoPath == "NFA has no path between initial and terminal node(s)"
\* the error a failing StepCallback returns
ObserverError == "test error"

\* fmt.Errorf("StepCallback for %q returned error: %w", stepName, err)
StepCallbackError(stepName, e) ==
    "StepCallback for \"" \o stepName \o "\" returned error: " \o e

\* fmt.Sprintf("remove-node-%s", node.Name)
RemoveStepName(name) == "remove-node-" \o name

\* return "", err
ReturnError(e) ==
    /\ pc' = "done"
    /\ res' = <<>>
    /\ err' = e

\* StepCallback with the `if err != nil { return "", ... }` after the call left
\* out: the callback's error is dropped and the conversion goes on at `next`
StepCallback_ErrorIgnored(sofar, stepName, next) ==
    \E e \in {nil, ObserverError} :
        /\ steps' = Append(sofar, [step |-> stepName, err |-> e])
        /\ pc' = next /\ res' = <<>> /\ err' = nil

\* err := config.StepCallback(nfa, stepName), and the `if err != nil` after
\* it: the callback is invoked after the `sofar` earlier checkpoints and returns
\* nil or an error (the default callback of ToRegex always returns nil); on nil
\* the conversion goes on at `next`, on an error it returns the error wrapped
StepCallback(sofar, stepName, next) ==
    \E e \in {nil, ObserverError} :
        /\ steps' = Append(sofar, [step |-> stepName, err |-> e])
        /\ IF e # nil
           THEN ReturnError(StepCallbackError(stepName, e))
           ELSE pc' = next /\ res' = <<>> /\ err' = nil

\* the records the caller's automaton owns: those allocated while it was built
CallerHeap == IF pc = "idle" THEN heap ELSE SubSeq(heap, 1, Len(before.heap))

\* NilCheck placed after the "start" checkpoint: the callback is invoked (and
\* returns nil) before the nil automaton is rejected
NilCheck_AfterStart ==
    /\ arg' = "nil"
    /\ work' = NoNFA
    /\ steps' = <<[step |-> "start", err |-> nil]>>
    /\ ReturnError(ErrNilNFA)

\* lines 559-561: `if nfa == nil`, taken
NilCheck ==
    /\ arg' = "nil"
    /\ work' = NoNFA
    /\ steps' = <<>>
    /\ ReturnError(ErrNilNFA)

\* lines 554-568: the nil check, the shallow copy and the "start" checkpoint
ToRegexStart ==
    /\ pc \in {"idle", "done"}
    /\ calls > 0
    /\ calls' = calls - 1
    /\ heap' = CallerHeap
    /\ before' = [heap |-> CallerHeap, nfa |-> nfa]
    /\ prev' = IF pc = "done" /\ err # ErrNilNFA
               THEN [res |-> res, err |-> err, before |-> before, steps |-> steps]
               ELSE prev
    /\ initialNode' = 0
    /\ terminalNode' = 0
    /\ removed' = <<>>
    /\ UNCHANGED <<nfa, app>>
    /\ \/ NilCheck
       \/ /\ arg' = "nfa"
          /\ work' = [Nodes |-> ShallowCopy(Caller).Nodes,
                      Edges |-> ShallowCopy(Caller).Edges]
          /\ StepCallback(<<>>, "start", "normalize")

\* lines 575-594, one iteration: the node registered under `key` is visited
NormalizeVisit(st, key) ==
    LET node == st.m.Nodes[key]
        rec == st.m.heap[node]
        initialName == st.m.heap[st.initialNode].Name
        terminalName == st.m.heap[st.terminalNode].Name
        m1 == IF rec.IsInitial
              THEN ReplaceNode(AddEdge(st.m, initialName, rec.Name, <<>>),
                               rec.Name, NFANode(rec.Name, FALSE, FALSE))
              ELSE st.m
        m2 == IF rec.IsTerminal
              THEN ReplaceNode(AddEdge(m1, rec.Name, terminalName, <<>>),
                               rec.Name, NFANode(rec.Name, FALSE, FALSE))
              ELSE m1
    IN  [st EXCEPT !.m = m2,
                   !.nfaHasInitial = st.nfaHasInitial \/ rec.IsInitial,
                   !.nfaHasTerminal = st.nfaHasTerminal \/ rec.IsTerminal]

RECURSIVE NormalizeLoop(_, _)
\* lines 575-594: the outcomes of `for _, node := range nfa.Nodes`, whose
\* order is unspecified; pending are the keys not visited yet
NormalizeLoop(st, pending) ==
    IF pending = {} THEN {st}
    ELSE UNION {NormalizeLoop(NormalizeVisit(st, key), pending \ {key}) :
                    key \in pending}

\* MissingNodeError with the two checks in the other order
MissingNodeError_TerminalFirst(nfaHasInitial, nfaHasTerminal) ==
    IF ~nfaHasTerminal THEN ErrNoTerminal
    ELSE IF ~nfaHasInitial THEN ErrNoInitial
    ELSE nil

\* MissingNodeError without the check of nfaHasTerminal
MissingNodeError_InitialOnly(nfaHasInitial, nfaHasTerminal) ==
    IF ~nfaHasInitial THEN ErrNoInitial ELSE nil

\* lines 598-604: the error of the missing-node checks, nil when both pass
MissingNodeError(nfaHasInitial, nfaHasTerminal) ==
    IF ~nfaHasInitial THEN ErrNoInitial
    ELSE IF ~nfaHasTerminal THEN ErrNoTerminal
    ELSE nil

\* CreateInitialTerminal with the "create-initial-terminal" checkpoint invoked
\* before the two missing-node checks
CreateInitialTerminal_CheckpointFirst ==
    /\ pc = "normalize"
    /\ LET i == GetOrCreateNode(Work, "__initial__")
           t == GetOrCreateNode(i.m, "__terminal__")
           st0 == [m |-> t.m, initialNode |-> i.node, terminalNode |-> t.node,
                   nfaHasInitial |-> FALSE, nfaHasTerminal |-> FALSE]
       IN  \E st \in NormalizeLoop(st0, DOMAIN t.m.Nodes) :
              /\ initialNode' = i.node
              /\ terminalNode' = t.node
              /\ heap' = [st.m.heap EXCEPT ![i.node].IsInitial = TRUE,
                                           ![t.node].IsTerminal = TRUE]
              /\ work' = [Nodes |-> st.m.Nodes, Edges |-> st.m.Edges]
              /\ \E e \in {nil, ObserverError} :
                    /\ steps' = Append(steps, [step |-> "create-initial-terminal",
                                               err |-> e])
                    /\ IF e # nil
                       THEN ReturnError(StepCallbackError("create-initial-terminal", e))
                       ELSE IF MissingNodeError(st.nfaHasInitial,
                                                st.nfaHasTerminal) # nil
                       THEN ReturnError(MissingNodeError(st.nfaHasInitial,
                                                         st.nfaHasTerminal))
                       ELSE pc' = "loop" /\ res' = <<>> /\ err' = nil
    /\ UNCHANGED <<nfa, removed, before, prev, calls, arg, app>>

\* lines 570-609: the synthetic nodes, the normalization loop, the two flags,
\* the missing-node checks and the "create-initial-terminal" checkpoint
CreateInitialTerminal ==
    /\ pc = "normalize"
    /\ LET i == GetOrCreateNode(Work, "__initial__")
           t == GetOrCreateNode(i.m, "__terminal__")
           st0 == [m |-> t.m, initialNode |-> i.node, terminalNode |-> t.node,
                   nfaHasInitial |-> FALSE, nfaHasTerminal |-> FALSE]
       IN  \E st \in NormalizeLoop(st0, DOMAIN t.m.Nodes) :
              /\ initialNode' = i.node
              /\ terminalNode' = t.node
              /\ heap' = [st.m.heap EXCEPT ![i.node].IsInitial = TRUE,
                                           ![t.node].IsTerminal = TRUE]
              /\ work' = [Nodes |-> st.m.Nodes, Edges |-> st.m.Edges]
              /\ IF MissingNodeError(st.nfaHasInitial, st.nfaHasTerminal) # nil
                 THEN /\ ReturnError(MissingNodeError(st.nfaHasInitial,
                                                      st.nfaHasTerminal))
                      /\ UNCHANGED steps
                 ELSE StepCallback(steps, "create-initial-terminal", "loop")
    /\ UNCHANGED <<nfa, removed, before, prev, calls, arg, app>>

\* the keys the inner loop does not skip (line 614)
Eliminable(nodes) ==
    {key \in DOMAIN nodes : nodes[key] # initialNode /\ nodes[key] # terminalNode}

RECURSIVE AddOutEdges_LoopAfter(_, _, _, _, _)
\* AddOutEdges with the loop label after the label of the outbound edge
AddOutEdges_LoopAfter(m, inEdge, outEdges, kleenStarMiddle, k) ==
    IF k > Len(outEdges) THEN m
    ELSE LET outEdge == outEdges[k]
             m1 == IF outEdge.SrcNode = outEdge.DstNode THEN m
                   ELSE AddEdge(m, m.heap[inEdge.SrcNode].Name,
                                m.heap[outEdge.DstNode].Name,
                                inEdge.Value \o outEdge.Value \o kleenStarMiddle)
         IN  AddOutEdges_LoopAfter(m1, inEdge, outEdges, kleenStarMiddle, k + 1)

RECURSIVE AddOutEdges(_, _, _, _, _)
\* lines 633-643: the inner loop over nfa.EdgesOut(node.Name), which is
\* evaluated once when the loop starts
AddOutEdges(m, inEdge, outEdges, kleenStarMiddle, k) ==
    IF k > Len(outEdges) THEN m
    ELSE LET outEdge == outEdges[k]
             m1 == IF outEdge.SrcNode = outEdge.DstNode THEN m
                   ELSE AddEdge(m, m.heap[inEdge.SrcNode].Name,
                                m.heap[outEdge.DstNode].Name,
                                inEdge.Value \o kleenStarMiddle \o outEdge.Value)
         IN  AddOutEdges(m1, inEdge, outEdges, kleenStarMiddle, k + 1)

RECURSIVE AddBypassEdges(_, _, _, _, _)
\* lines 629-644: the loop over inEdges
AddBypassEdges(m, nodeName, inEdges, kleenStarMiddle, k) ==
    IF k > Len(inEdges) THEN m
    ELSE LET inEdge == inEdges[k]
             m1 == IF inEdge.SrcNode = inEdge.DstNode THEN m
                   ELSE AddOutEdges(m, inEdge, EdgesOut(m, nodeName),
                                    kleenStarMiddle, 1)
         IN  AddBypassEdges(m1, nodeName, inEdges, kleenStarMiddle, k + 1)

\* EliminateNode that forgets the self-loops: nothing between the two labels
EliminateNode_LoopsNotFolded(m, key) ==
    LET name == m.heap[m.Nodes[key]].Name
        inEdges == EdgesIn(m, name)
    IN  RemoveNode(AddBypassEdges(m, name, inEdges, <<>>, 1), name)

\* lines 618-646: the body of the inner loop for the node under `key`
EliminateNode(m, key) ==
    LET name == m.heap[m.Nodes[key]].Name
        inEdges == EdgesIn(m, name)
        loops == SelectSeq(inEdges, LAMBDA e : e.SrcNode = e.DstNode)
        kleenStarValues == [k \in 1..Len(loops) |-> loops[k].Value]
        kleenStarMiddle ==
            addKleenStar(orJoin(kleenStarValues), <<Len(kleenStarValues) > 1>>)
    IN  RemoveNode(AddBypassEdges(m, name, inEdges, kleenStarMiddle, 1), name)

\* lines 612-653, one iteration of the inner loop that does not `continue`:
\* a node is eliminated and the "remove-node-<name>" checkpoint is invoked
RemoveNodeStep ==
    /\ \/ pc = "loop" /\ Cardinality(DOMAIN work.Nodes) > 2
       \/ pc = "range"
    /\ \E key \in Eliminable(work.Nodes) :
          LET name == heap[work.Nodes[key]].Name
              m == EliminateNode(Work, key)
          IN  /\ heap' = m.heap
              /\ work' = [Nodes |-> m.Nodes, Edges |-> m.Edges]
              /\ removed' = Append(removed, name)
              /\ StepCallback(steps, RemoveStepName(name), "range")
    /\ UNCHANGED <<nfa, initialNode, terminalNode, before, prev, calls, arg,
                   app>>

\* lines 656-668, once the loops of line 612 and 613 have ended
ProduceRegex ==
    /\ \/ pc = "loop"
       \/ pc = "range" /\ Eliminable(work.Nodes) = {}
    /\ Cardinality(DOMAIN work.Nodes) <= 2
    /\ LET hasInitialTerminalEdge ==
               \E k \in 1..Len(work.Edges) :
                   /\ heap[work.Edges[k].SrcNode].IsInitial
                   /\ heap[work.Edges[k].DstNode].IsTerminal
           values == [k \in 1..Len(work.Edges) |-> work.Edges[k].Value]
       IN  /\ pc' = "done"
           /\ IF ~hasInitialTerminalEdge
              THEN res' = <<>> /\ err' = ErrNoPath
              ELSE res' = orJoin(values) /\ err' = nil
    /\ UNCHANGED <<heap, nfa, work, initialNode, terminalNode, steps, removed,
                   before, prev, calls, arg, app>>

-----------------------------------------------------------------------------
(* The regular expressions of Go's regexp package, as far as ToRegex       *)
(* produces them: literals, concatenation, "|", "(" ")" and "*".  The      *)
(* language of an expression is computed up to strings of MaxDepth symbols. *)

\* the strings of at most MaxDepth symbols that are x followed by y
Cat(L1, L2) ==
    {z \in {x \o y : x \in L1, y \in L2} : Len(z) <= MaxDepth}

RECURSIVE Star(_, _)
\* the closure of acc under appending a string of L
Star(L, acc) ==
    LET more == acc \cup Cat(acc, L)
    IN  IF more = acc THEN acc ELSE Star(L, more)

RECURSIVE ParseAlt(_, _)
RECURSIVE ParseCat(_, _)
RECURSIVE ParseRep(_, _)

\* an alternation starting at t[i]: concatenations separated by "|"
ParseAlt(t, i) ==
    LET c == ParseCat(t, i)
    IN  IF c.i <= Len(t) /\ t[c.i] = "|"
        THEN LET r == ParseAlt(t, c.i + 1)
             IN  [ok |-> c.ok /\ r.ok, L |-> c.L \cup r.L, i |-> r.i]
        ELSE c

\* a concatenation starting at t[i], up to "|", ")" or the end
ParseCat(t, i) ==
    IF i > Len(t) \/ t[i] \in {"|", ")"}
    THEN [ok |-> TRUE, L |-> {<<>>}, i |-> i]
    ELSE LET a == ParseRep(t, i)
         IN  IF ~a.ok THEN a
             ELSE LET r == ParseCat(t, a.i)
                  IN  [ok |-> r.ok, L |-> Cat(a.L, r.L), i |-> r.i]

\* a literal or a group at t[i], with the "*" that may follow it; a "*" with
\* nothing to repeat and a "*" after a "*" are syntax errors
ParseRep(t, i) ==
    LET atom ==
            IF t[i] = "*" THEN [ok |-> FALSE, L |-> {}, i |-> Len(t) + 1]
            ELSE IF t[i] = "("
            THEN LET r == ParseAlt(t, i + 1)
                 IN  IF r.ok /\ r.i <= Len(t) /\ t[r.i] = ")"
                     THEN [ok |-> TRUE, L |-> r.L, i |-> r.i + 1]
                     ELSE [ok |-> FALSE, L |-> {}, i |-> Len(t) + 1]
            ELSE [ok |-> TRUE, L |-> {<<t[i]>>}, i |-> i + 1]
    IN  IF atom.ok /\ atom.i <= Len(t) /\ t[atom.i] = "*"
        THEN IF atom.i + 1 <= Len(t) /\ t[atom.i + 1] = "*"
             THEN [ok |-> FALSE, L |-> {}, i |-> Len(t) + 1]
             ELSE [ok |-> TRUE, L |-> Star(atom.L, {<<>>}), i |-> atom.i + 1]
        ELSE atom

\* regexp.Compile(t) succeeds
Compiles(t) ==
    LET r == ParseAlt(t, 1) IN r.ok /\ r.i = Len(t) + 1

\* the strings of at most MaxDepth symbols in the language of t
Lang(t) == IF Compiles(t) THEN ParseAlt(t, 1).L ELSE {}

\* regexp.MustCompile(t).MatchString(s): s contains a match of t
MatchString(t, s) ==
    /\ Compiles(t)
    /\ \E i \in 1..(Len(s) + 1), j \in 0..Len(s) :
          /\ i <= j + 1
          /\ SubSeq(s, i, j) \in ParseAlt(t, 1).L

-----------------------------------------------------------------------------
(* The simulator, and the walk of the tests *)

\* the strings of at most MaxDepth symbols
RECURSIVE StringsUpTo(_)
StringsUpTo(n) ==
    IF n = 0 THEN {<<>>}
    ELSE LET shorter == StringsUpTo(n - 1)
         IN  shorter \cup {Append(s, c) : s \in shorter, c \in Symbols}

\* InitialNodes without the test of the flag: every node is active at first
InitialNodes_AllNodes(m) == {m.Nodes[k] : k \in DOMAIN m.Nodes}

\* the pointers of the nodes of m flagged initial
InitialNodes(m) == {m.Nodes[k] : k \in {n \in DOMAIN m.Nodes : m.heap[m.Nodes[n]].IsInitial}}

RECURSIVE MatchFrom(_, _, _)
\* lines 509-521 from the k-th symbol on; the active nodes are kept as a set,
\* which decides the same result as the slice of the code
MatchFrom(m, activeNodes, input) ==
    IF Len(input) = 0 THEN activeNodes
    ELSE LET ch == <<Head(input)>>
             newActiveNodes ==
                 {e.DstNode : e \in
                     {e \in UNION {{EdgesOut(m, m.heap[n].Name)[k] :
                                       k \in 1..Len(EdgesOut(m, m.heap[n].Name))} :
                                   n \in activeNodes} : e.Value = ch}}
         IN  MatchFrom(m, newActiveNodes, Tail(input))

\* nfa.Match(input)
Match(m, input) ==
    \E node \in MatchFrom(m, InitialNodes(m), input) : m.heap[node].IsTerminal

\* the caller's last statement: nfa.Match(input)
CallMatch ==
    /\ pc = "idle"
    /\ pc' = "matched"
    /\ \E input \in StringsUpTo(MaxDepth) :
          app' = [fn |-> "Match", input |-> input, out |-> Match(Caller, input)]
    /\ UNCHANGED <<heap, nfa, work, initialNode, terminalNode, steps, removed,
                   res, err, before, prev, calls, arg>>

RECURSIVE nfaWalkRecurse(_, _, _, _)
\* the (path, node) pairs the callback is called with
nfaWalkRecurse(m, path, node, depth) ==
    {[path |-> path, node |-> node]} \cup
    IF depth = 0 THEN {}
    ELSE LET out == EdgesOut(m, m.heap[node].Name)
         IN  UNION {nfaWalkRecurse(m, path \o out[k].Value, out[k].DstNode,
                                   depth - 1) : k \in 1..Len(out)}

nfaWalk(m, maxDepth) ==
    UNION {nfaWalkRecurse(m, <<>>, node, maxDepth) : node \in InitialNodes(m)}

-----------------------------------------------------------------------------

\* NewNFA(), and a caller that will convert the automaton it builds n times
Start(n) ==
    /\ heap = NewNFA.heap
    /\ nfa = [Nodes |-> NewNFA.Nodes, Edges |-> NewNFA.Edges]
    /\ pc = "idle"
    /\ work = NoNFA
    /\ initialNode = 0
    /\ terminalNode = 0
    /\ steps = <<>>
    /\ removed = <<>>
    /\ res = <<>>
    /\ err = nil
    /\ before = [heap |-> <<>>, nfa |-> NoNFA]
    /\ prev = NoCall
    /\ calls = n
    /\ arg = "nfa"
    /\ app = NoApp

Init == Start(1)

\* the caller converts the automaton it built twice
InitTwice == Start(2)

Next ==
    \/ CallAddEdge
    \/ SetInitial
    \/ SetTerminal
    \/ ToRegexStart
    \/ CreateInitialTerminal
    \/ RemoveNodeStep
    \/ ProduceRegex

Spec == Init /\ [][Next]_vars

SpecTwice == InitTwice /\ [][Next]_vars

\* a caller that converts one of the example automata
InitExamples == Start(1)

NextExamples ==
    \/ MakeExample
    \/ ToRegexStart
    \/ CreateInitialTerminal
    \/ RemoveNodeStep
    \/ ProduceRegex

SpecExamples == InitExamples /\ [][NextExamples]_vars

\* a caller that converts an automaton whose labels may have two symbols
InitLabels == Start(1)

NextLabels ==
    \/ AddLabelledEdge
    \/ SetInitial
    \/ SetTerminal
    \/ ToRegexStart
    \/ CreateInitialTerminal
    \/ RemoveNodeStep
    \/ ProduceRegex

SpecLabels == InitLabels /\ [][NextLabels]_vars

\* a caller that builds an automaton and calls Match on it
InitMatch == Start(0)

NextMatch ==
    \/ AddLabelledEdge
    \/ SetInitial
    \/ SetTerminal
    \/ CallMatch

SpecMatch == InitMatch /\ [][NextMatch]_vars

\* a caller of the two string combinators
InitCombinators == Start(0)

NextCombinators ==
    \/ CallOrJoin
    \/ CallAddKleenStar

SpecCombinators == InitCombinators /\ [][NextCombinators]_vars

\* a caller that builds an automaton with AddEdge, RemoveNode and ReplaceNode
\* and converts it
InitOps == Start(1)

NextOps ==
    \/ OpAddEdge
    \/ OpRemoveNode
    \/ OpReplaceNode
    \/ ToRegexStart
    \/ CreateInitialTerminal
    \/ RemoveNodeStep
    \/ ProduceRegex

SpecOps == InitOps /\ [][NextOps]_vars

-----------------------------------------------------------------------------
(* What the claims speak about *)

\* the caller's automaton as it was when the call started
Before == [heap |-> before.heap, Nodes |-> before.nfa.Nodes,
           Edges |-> before.nfa.Edges]

\* a conversion of the caller's automaton has returned
Returned == pc = "done" /\ err # ErrNilNFA

\* some invocation of the StepCallback in st returned an error
ObserverFailed(st) == \E k \in 1..Len(st) : st[k].err # nil

\* the conversion returned a regular expression
Succeeded == Returned /\ err = nil

HasInitial(m) == \E n \in DOMAIN m.Nodes : m.heap[m.Nodes[n]].IsInitial

HasTerminal(m) == \E n \in DOMAIN m.Nodes : m.heap[m.Nodes[n]].IsTerminal

\* some terminal node of m is reachable from an initial node of m
TerminalReachable(m) ==
    \E w \in nfaWalk(m, Cardinality(DOMAIN m.Nodes)) : m.heap[w.node].IsTerminal

\* no node of m has one of the two names ToRegexWithConfig reserves
NoReservedName(m) == DOMAIN m.Nodes \cap {"__initial__", "__terminal__"} = {}

\* the names of the checkpoints invoked so far
StepNames == [k \in 1..Len(steps) |-> steps[k].step]

-----------------------------------------------------------------------------
(* C1 *)

\* C1: language equivalence by walks.  The formula is the half of C1 that
\* every reading of it implies: whenever ToRegex returned a regular
\* expression, every walk of at most MaxDepth edges that starts at an initial
\* node of the original automaton and ends on a terminal node spells a string
\* that the expression matches, "matches" being regexp's MatchString, which
\* accepts a string as soon as a part of it is in the language; it is stated
\* for the automata that use neither reserved node name.
C1_TerminalWalksMatch ==
    (Succeeded /\ NoReservedName(Before)) =>
        \A w \in nfaWalk(Before, MaxDepth) :
            Before.heap[w.node].IsTerminal => MatchString(res, w.path)

-----------------------------------------------------------------------------
(* C2 *)

\* C2: simulator/regex agreement.  The formula is the half of C2 that every
\* reading of it implies: whenever ToRegex returned a regular expression,
\* every string of at most MaxDepth symbols that nfa.Match accepts on the
\* original automaton is matched by the expression; it is stated for the
\* automata that use neither reserved node name.
C2_MatchedBySimulatorMatchedByRegex ==
    (Succeeded /\ NoReservedName(Before)) =>
        \A s \in StringsUpTo(MaxDepth) :
            Match(Before, s) => MatchString(res, s)

-----------------------------------------------------------------------------
(* C3 *)

\* C3: when ToRegexWithConfig has returned, with a regex or with any error,
\* the caller's node map, edge list and node records are what they were
\* before the call.
C3_CallerUnchanged ==
    Returned =>
        /\ nfa = before.nfa
        /\ SubSeq(heap, 1, Len(before.heap)) = before.heap

-----------------------------------------------------------------------------
(* C4 *)

\* C4: two executions of ToRegex (no StepCallback) on the same automaton
\* agree: both return the same error, or both return regular expressions
\* with the same language (compared on the strings of at most MaxDepth
\* symbols); stated for the automata that use neither reserved node name.
C4_OrderIndependent ==
    ( /\ Returned
      /\ NoReservedName(Before)
      /\ prev # NoCall
      /\ prev.before = before
      /\ ~ObserverFailed(steps)
      /\ ~ObserverFailed(prev.steps) )
    => /\ err = prev.err
       /\ err = nil => /\ Compiles(res) <=> Compiles(prev.res)
                       /\ Lang(res) = Lang(prev.res)

-----------------------------------------------------------------------------
(* C5 *)

\* C5: for an automaton with an initial and a terminal node, ToRegex returns
\* "" and the no-path error exactly when no terminal node is reachable from
\* an initial node of the input, and otherwise orJoin of the remaining edge
\* labels with a nil error.
C5_NoPathError ==
    ( /\ Returned
      /\ ~ObserverFailed(steps)
      /\ HasInitial(Before)
      /\ HasTerminal(Before) )
    => IF ~TerminalReachable(Before)
       THEN res = <<>> /\ err = ErrNoPath
       ELSE /\ err = nil
            /\ res = orJoin([k \in 1..Len(work.Edges) |-> work.Edges[k].Value])

-----------------------------------------------------------------------------
(* C6 *)

\* C6: for an automaton that has edges but no node flagged initial, ToRegex
\* returns an empty string and exactly the error "NFA has no initial node(s)".
C6_NoInitialError ==
    ( /\ Returned
      /\ ~ObserverFailed(steps)
      /\ Len(Before.Edges) > 0
      /\ ~HasInitial(Before) )
    => res = <<>> /\ err = "NFA has no initial node(s)"

\* a conversion of an automaton with edges, a terminal node and no initial
\* node has returned
C6_Witness ==
    /\ Returned
    /\ ~ObserverFailed(steps)
    /\ Len(Before.Edges) > 0
    /\ ~HasInitial(Before)
    /\ HasTerminal(Before)

-----------------------------------------------------------------------------
(* C7 *)

\* C7: for an automaton with a node flagged initial and no node flagged
\* terminal, ToRegex returns an empty string and exactly the error
\* "NFA has no terminal node(s)".
C7_NoTerminalError ==
    ( /\ Returned
      /\ ~ObserverFailed(steps)
      /\ HasInitial(Before)
      /\ ~HasTerminal(Before) )
    => res = <<>> /\ err = "NFA has no terminal node(s)"

\* a conversion of an automaton with an initial node and no terminal node
\* has returned
C7_Witness ==
    /\ Returned
    /\ ~ObserverFailed(steps)
    /\ HasInitial(Before)
    /\ ~HasTerminal(Before)

-----------------------------------------------------------------------------
(* C8 *)

\* C8: an error returned by the StepCallback aborts the conversion: the
\* failed invocation is the last one, the conversion has returned an empty
\* string and the error that names that checkpoint and wraps the callback's
\* error; the first checkpoint is "start", so that is where an observer that
\* always fails is reported.
C8_ObserverFailureAborts ==
    /\ \A k \in 1..Len(steps) :
          steps[k].err # nil =>
              /\ k = Len(steps)
              /\ pc = "done"
              /\ res = <<>>
              /\ err = "StepCallback for \"" \o steps[k].step
                           \o "\" returned error: " \o steps[k].err
    /\ Len(steps) > 0 => steps[1].step = "start"

\* the StepCallback failed at a "remove-node-<name>" checkpoint, after the
\* two earlier checkpoints passed
C8_Witness ==
    /\ Len(steps) > 2
    /\ steps[Len(steps)].err # nil
    /\ steps[Len(steps)].step \in {RemoveStepName(n) : n \in NodeNames}

-----------------------------------------------------------------------------
(* C9 *)

\* C9: in a conversion that passed normalization and whose observer never
\* failed, the checkpoints are "start", "create-initial-terminal" and then
\* "remove-node-<name>" exactly once for each node of the input automaton
\* and for no other name.
C9_CheckpointSequence ==
    ( /\ Returned
      /\ ~ObserverFailed(steps)
      /\ err \in {nil, ErrNoPath} )
    => /\ Len(steps) = 2 + Cardinality(DOMAIN Before.Nodes)
       /\ StepNames[1] = "start"
       /\ StepNames[2] = "create-initial-terminal"
       /\ {StepNames[k] : k \in 3..Len(steps)}
              = {RemoveStepName(n) : n \in DOMAIN Before.Nodes}

-----------------------------------------------------------------------------
(* C10 *)

\* C10: the elimination loop performs at most as many iterations as the
\* input has nodes and ends with the node count of the working copy at 2.
C10_LoopEndsWithTwoNodes ==
    ( /\ Returned
      /\ ~ObserverFailed(steps)
      /\ err \in {nil, ErrNoPath} )
    => /\ Len(removed) <= Cardinality(DOMAIN Before.Nodes)
       /\ Cardinality(DOMAIN work.Nodes) = 2

-----------------------------------------------------------------------------
(* C11 *)

\* C11: once ToRegexWithConfig has been called with a nil automaton it has
\* returned, at once, the empty string and the error "NFA must be non-nil",
\* and the StepCallback has been invoked at no checkpoint.
C11_NilRejected ==
    arg = "nil" =>
        /\ pc = "done"
        /\ res = <<>>
        /\ err = "NFA must be non-nil"
        /\ steps = <<>>

\* a caller that has built an automaton with edges has called ToRegexWithConfig
\* with nil instead, and the call has returned
C11_Witness ==
    /\ arg = "nil"
    /\ pc = "done"
    /\ Len(nfa.Edges) > 0

-----------------------------------------------------------------------------
(* C17 *)

\* C17: orJoin discards the empty entries of its input and returns "" when
\* none remains, the remaining string unwrapped when one remains, and
\* "(" + the remaining strings in input order separated by "|" + ")" when two
\* or more remain; orJoin([]) = "", orJoin(["a"]) = "a",
\* orJoin(["a","b"]) = "(a|b)", orJoin(["","a","b"]) = "(a|b)".
C17_OrJoin ==
    app.fn = "orJoin" =>
        LET in == app.inputStrs
            idx == {k \in 1..Len(in) : in[k] # <<>>}
            n == Cardinality(idx)
            \* the k-th remaining string
            nth(k) == in[CHOOSE i \in idx : Cardinality({j \in idx : j < i}) = k - 1]
            RECURSIVE upto(_)
            \* the first k remaining strings separated by "|"
            upto(k) == IF k = 1 THEN nth(1)
                       ELSE upto(k - 1) \o <<"|">> \o nth(k)
        IN  /\ n = 0 => app.out = <<>>
            /\ n = 1 => app.out = nth(1)
            /\ n >= 2 => app.out = <<"(">> \o upto(n) \o <<")">>
            /\ in = <<>> => app.out = <<>>
            /\ in = <<<<"a">>>> => app.out = <<"a">>
            /\ in = <<<<"a">>, <<"b">>>> => app.out = <<"(", "a", "|", "b", ")">>
            /\ in = <<<<>>, <<"a">>, <<"b">>>>
                   => app.out = <<"(", "a", "|", "b", ")">>

\* orJoin has been called with ["", "a", "b"]
C17_Witness ==
    /\ app.fn = "orJoin"
    /\ app.inputStrs = <<<<>>, <<"a">>, <<"b">>>>

-----------------------------------------------------------------------------
(* C18 *)

\* C18 as stated: addKleenStar returns "" for the empty string, s + "*" when
\* s is a single symbol, "(" + s + ")*" when s has several symbols and the
\* flag is false or absent, and s + "*" when s has several symbols and the
\* flag is true.
C18_AddKleenStarBySymbols ==
    app.fn = "addKleenStar" =>
        LET s == app.s
            flag == Len(app.noWrap) > 0 /\ app.noWrap[1]
        IN  app.out = IF Len(s) = 0 THEN <<>>
                      ELSE IF Len(s) = 1 \/ flag THEN s \o <<"*">>
                      ELSE <<"(">> \o s \o <<")", "*">>

\* C18 amended: addKleenStar returns "" for the empty string, s + "*" when s
\* is one byte long, and for a longer s (several symbols, or one symbol
\* encoded in several bytes) "(" + s + ")*" when the flag is false or absent
\* and s + "*" when it is true; addKleenStar("") = "", addKleenStar("a") =
\* "a*", addKleenStar("abc") = "(abc)*", addKleenStar("(abc|123)", true) =
\* "(abc|123)*".
C18_AddKleenStarByBytes ==
    app.fn = "addKleenStar" =>
        LET s == app.s
            flag == app.noWrap = <<TRUE>>
            bytes == IF s = <<>> THEN 0
                     ELSE IF Len(s) = 1 /\ s[1] \notin TwoByte THEN 1
                     ELSE 2
            abc == <<"a", "b", "c">>
            group == <<"(", "a", "b", "c", "|", "1", "2", "3", ")">>
        IN  /\ bytes = 0 => app.out = <<>>
            /\ bytes = 1 => app.out = s \o <<"*">>
            /\ bytes > 1 /\ ~flag => app.out = <<"(">> \o s \o <<")", "*">>
            /\ bytes > 1 /\ flag => app.out = s \o <<"*">>
            /\ s = <<"a">> => app.out = <<"a", "*">>
            /\ s = abc /\ app.noWrap = <<>>
                   => app.out = <<"(", "a", "b", "c", ")", "*">>
            /\ s = group /\ flag => app.out = group \o <<"*">>

\* addKleenStar has been called, without the flag, on a single symbol that is
\* encoded in two bytes, and has wrapped it
C18_Witness ==
    /\ app.fn = "addKleenStar"
    /\ app.s = <<"U+00E9">>
    /\ app.noWrap = <<>>
    /\ app.out = <<"(", "U+00E9", ")", "*">>

-----------------------------------------------------------------------------
(* C12 *)

\* C12, for the interleavings in which the conversions follow one another
\* and a Match call comes between two steps of a conversion or after it: at
\* every point from the start of the first conversion on, Match on the
\* caller's automaton returns what it returns on the automaton as it was
\* before the first conversion, and a conversion returns what a conversion
\* run alone on that automaton returns: the missing-initial error when it has
\* edges and no initial node, the missing-terminal error when it has an
\* initial and no terminal node.
C12_NoInterference ==
    LET first == IF prev # NoCall THEN prev.before ELSE before
        untouched == [heap |-> first.heap, Nodes |-> first.nfa.Nodes,
                      Edges |-> first.nfa.Edges]
    IN  pc # "idle" =>
            /\ \A s \in StringsUpTo(MaxDepth) :
                  Match(Caller, s) <=> Match(untouched, s)
            /\ (Returned /\ ~ObserverFailed(steps)) =>
                  /\ (Len(untouched.Edges) > 0 /\ ~HasInitial(untouched))
                         => (res = <<>> /\ err = ErrNoInitial)
                  /\ (HasInitial(untouched) /\ ~HasTerminal(untouched))
                         => (res = <<>> /\ err = ErrNoTerminal)

-----------------------------------------------------------------------------
(* C13 *)

\* C13: Match(input) is a Boolean (Match never fails), and it is true if and
\* only if some path from a node flagged initial to a node flagged terminal
\* runs over edges whose labels are, one by one, the symbols of input; edges
\* with an empty label or a label of several symbols are on no such path.
C13_MatchSemantics ==
    app.fn = "Match" =>
        LET RECURSIVE spells(_, _)
            \* a path from node n to a terminal node spells s
            spells(n, s) ==
                IF s = <<>> THEN heap[n].IsTerminal
                ELSE \E k \in 1..Len(nfa.Edges) :
                        /\ nfa.Edges[k].SrcNode = n
                        /\ nfa.Edges[k].Value = <<Head(s)>>
                        /\ spells(nfa.Edges[k].DstNode, Tail(s))
        IN  /\ app.out \in BOOLEAN
            /\ app.out <=> \E name \in DOMAIN nfa.Nodes :
                               /\ heap[nfa.Nodes[name]].IsInitial
                               /\ spells(nfa.Nodes[name], app.input)

\* Match has accepted an input of two symbols on an automaton that also has
\* an edge with an empty label or a label of two symbols
C13_Witness ==
    /\ app.fn = "Match"
    /\ app.out = TRUE
    /\ Len(app.input) = 2
    /\ \E k \in 1..Len(nfa.Edges) : Len(nfa.Edges[k].Value) # 1

-----------------------------------------------------------------------------
(* C14 *)

-----------------------------------------------------------------------------
(* C15 *)

\* C15: every conversion of MakeNFAManyMany returns a nil error and a
\* parenthesized alternation whose branches are xl*b, xl*y, al*b and al*y,
\* each once, in some order.
C15_ScenarioB ==
    (Returned /\ ~ObserverFailed(steps) /\ Before = MakeNFAManyMany) =>
        LET branches == <<<<"x", "l", "*", "b">>, <<"x", "l", "*", "y">>,
                          <<"a", "l", "*", "b">>, <<"a", "l", "*", "y">>>>
            orders == {p \in [1..4 -> 1..4] : \A i, j \in 1..4 : p[i] = p[j] => i = j}
        IN  /\ err = nil
            /\ \E p \in orders :
                  res = <<"(">> \o branches[p[1]] \o <<"|">> \o branches[p[2]]
                            \o <<"|">> \o branches[p[3]] \o <<"|">>
                            \o branches[p[4]] \o <<")">>

\* a conversion of MakeNFAManyMany has returned an alternation that does not
\* start with the branch xl*b of the README
C15_Witness ==
    /\ Returned
    /\ Before = MakeNFAManyMany
    /\ err = nil
    /\ Len(res) > 1
    /\ res[2] = "a"

-----------------------------------------------------------------------------
(* C16 *)

\* C16: every conversion of MakeSimpleNFA returns ax*b with a nil error,
\* whatever the order in which the three nodes are eliminated.
C16_Chain ==
    (Returned /\ ~ObserverFailed(steps) /\ Before = MakeSimpleNFA) =>
        /\ err = nil
        /\ res = <<"a", "x", "*", "b">>

\* a conversion of MakeSimpleNFA that eliminated node 3, then 2, then 1 has
\* returned
C16_Witness ==
    /\ Returned
    /\ Before = MakeSimpleNFA
    /\ ~ObserverFailed(steps)
    /\ removed = <<"3", "2", "1">>

-----------------------------------------------------------------------------
(* C19 *)

\* C19: a step that eliminates node n, with loopLabel = addKleenStar(orJoin(
\* labels of n's self-loops), more than one self-loop), leaves in the working
\* copy the edges not incident to n, unchanged and in their order, followed
\* by exactly one new edge per pair (i, o) of an inbound edge i and an
\* outbound edge o of n that are not self-loops, from i's source to o's
\* destination with label i.label + loopLabel + o.label; n leaves the node
\* map, no edge has n as an endpoint any more, no node is created and no
\* other node changes.
C19_EliminationStep ==
    [][ Len(removed') = Len(removed) + 1 =>
        LET name == removed'[Len(removed')]
            n == work.Nodes[name]
            E == work.Edges
            loops == SelectSeq(E, LAMBDA e : e.SrcNode = n /\ e.DstNode = n)
            loopLabel == addKleenStar(orJoin([k \in 1..Len(loops) |-> loops[k].Value]),
                                      <<Len(loops) > 1>>)
            ins == SelectSeq(E, LAMBDA e : e.DstNode = n /\ e.SrcNode # n)
            outs == SelectSeq(E, LAMBDA e : e.SrcNode = n /\ e.DstNode # n)
            kept == SelectSeq(E, LAMBDA e : e.SrcNode # n /\ e.DstNode # n)
            new == [k \in 1..(Len(ins) * Len(outs)) |->
                      LET i == ins[((k - 1) \div Len(outs)) + 1]
                          o == outs[((k - 1) % Len(outs)) + 1]
                      IN  [SrcNode |-> i.SrcNode, DstNode |-> o.DstNode,
                           Value |-> i.Value \o loopLabel \o o.Value]]
        IN  /\ name \in DOMAIN work.Nodes
            /\ work'.Edges = kept \o new
            /\ \A k \in 1..Len(work'.Edges) :
                  work'.Edges[k].SrcNode # n /\ work'.Edges[k].DstNode # n
            /\ DOMAIN work'.Nodes = DOMAIN work.Nodes \ {name}
            /\ \A other \in DOMAIN work'.Nodes : work'.Nodes[other] = work.Nodes[other]
            /\ heap' = heap
      ]_vars

\* a node with an inbound edge, an outbound edge and a self-loop has been
\* eliminated: an edge of the working copy carries a starred label
C19_Witness ==
    /\ removed # <<>>
    /\ pc = "range"
    /\ \E k \in 1..Len(work.Edges) :
          \E j \in 1..Len(work.Edges[k].Value) : work.Edges[k].Value[j] = "*"

-----------------------------------------------------------------------------
(* C20 *)

\* C20: whenever a step eliminates a node with more than one self-loop, and so
\* calls addKleenStar with noWrap = true, the string it passes (orJoin of the
\* self-loop labels) is empty, a single symbol or one parenthesized group, and
\* the result denotes the repetition of that whole string.
C20_NoWrapOnlyOnGroups ==
    [][ Len(removed') = Len(removed) + 1 =>
        LET n == work.Nodes[removed'[Len(removed')]]
            loops == SelectSeq(work.Edges,
                               LAMBDA e : e.SrcNode = n /\ e.DstNode = n)
            s == orJoin([k \in 1..Len(loops) |-> loops[k].Value])
            \* the parentheses open after the first k symbols of s
            depth(k) == Cardinality({j \in 1..k : s[j] = "("})
                            - Cardinality({j \in 1..k : s[j] = ")"})
            group == /\ s[1] = "("
                     /\ s[Len(s)] = ")"
                     /\ \A k \in 1..(Len(s) - 1) : depth(k) > 0
        IN  Len(loops) > 1 =>
                /\ Len(s) <= 1 \/ group
                /\ Lang(addKleenStar(s, <<TRUE>>)) = Star(Lang(s), {<<>>})
      ]_vars

-----------------------------------------------------------------------------
(* C21 *)

\* the conversion is at the "create-initial-terminal" checkpoint: the
\* StepCallback has just been invoked with it, and nothing was removed yet
AtCreateInitialTerminal ==
    /\ arg = "nfa"
    /\ Len(steps) = 2
    /\ steps[2].step = "create-initial-terminal"

\* C21: at the "create-initial-terminal" checkpoint, in the working copy, the
\* synthetic initial node is the only node flagged initial and the synthetic
\* terminal node the only node flagged terminal; every node flagged initial in
\* the input has exactly one empty-label edge from the synthetic initial node
\* and every node flagged terminal in the input exactly one empty-label edge
\* to the synthetic terminal node; every input edge is still there with the
\* same endpoint names and label; no edge enters the synthetic initial node
\* and none leaves the synthetic terminal node.
C21_NormalizationPostcondition ==
    AtCreateInitialTerminal =>
        LET E == work.Edges
            flagged(f) == {work.Nodes[n] : n \in {x \in DOMAIN work.Nodes :
                                                     heap[work.Nodes[x]][f]}}
            eps(src, dst) == {k \in 1..Len(E) : /\ E[k].SrcNode = src
                                                /\ E[k].DstNode = dst
                                                /\ E[k].Value = <<>>}
        IN  /\ flagged("IsInitial") = {initialNode}
            /\ flagged("IsTerminal") = {terminalNode}
            /\ \A n \in DOMAIN Before.Nodes :
                  /\ Before.heap[Before.Nodes[n]].IsInitial =>
                        /\ n \in DOMAIN work.Nodes
                        /\ Cardinality(eps(initialNode, work.Nodes[n])) = 1
                  /\ Before.heap[Before.Nodes[n]].IsTerminal =>
                        /\ n \in DOMAIN work.Nodes
                        /\ Cardinality(eps(work.Nodes[n], terminalNode)) = 1
            /\ \A j \in 1..Len(Before.Edges) :
                  \E k \in 1..Len(E) :
                      /\ heap[E[k].SrcNode].Name
                             = Before.heap[Before.Edges[j].SrcNode].Name
                      /\ heap[E[k].DstNode].Name
                             = Before.heap[Before.Edges[j].DstNode].Name
                      /\ E[k].Value = Before.Edges[j].Value
            /\ \A k \in 1..Len(E) :
                  E[k].DstNode # initialNode /\ E[k].SrcNode # terminalNode

-----------------------------------------------------------------------------
(* C22 *)

\* C22: whenever the elimination loop has finished, the working copy holds
\* exactly two nodes, the synthetic initial node under "__initial__" and the
\* synthetic terminal node under "__terminal__", and every remaining edge
\* runs from the synthetic initial node to the synthetic terminal node.
C22_FinalizationPrecondition ==
    (Returned /\ ~ObserverFailed(steps) /\ err \in {nil, ErrNoPath}) =>
        /\ DOMAIN work.Nodes = {"__initial__", "__terminal__"}
        /\ work.Nodes["__initial__"] = initialNode
        /\ work.Nodes["__terminal__"] = terminalNode
        /\ \A k \in 1..Len(work.Edges) :
              /\ work.Edges[k].SrcNode = initialNode
              /\ work.Edges[k].DstNode = terminalNode

-----------------------------------------------------------------------------
(* C23 *)

\* C23: the synthetic initial node and the synthetic terminal node of a
\* conversion are records allocated by the conversion, never a record of the
\* caller's automaton, and no record of the caller's automaton has a flag
\* changed by the conversion.
C23_FreshSyntheticNodes ==
    (arg = "nfa" /\ initialNode # 0) =>
        /\ initialNode > Len(before.heap)
        /\ terminalNode > Len(before.heap)
        /\ \A k \in 1..Len(before.heap) :
              /\ heap[k].IsInitial = before.heap[k].IsInitial
              /\ heap[k].IsTerminal = before.heap[k].IsTerminal

-----------------------------------------------------------------------------
(* C28 *)

\* C28: a conversion that returned a missing-node error has invoked the
\* StepCallback exactly once, with "start"; the "create-initial-terminal" and
\* "remove-node-<name>" checkpoints are invoked only for an input that has an
\* initial and a terminal node, after "start"; for an input with neither an
\* initial nor a terminal node the error is "NFA has no initial node(s)"; and
\* when the StepCallback fails at "start" its error is the one returned,
\* whatever nodes the input lacks.
C28_ChecksAfterStart ==
    /\ (Returned /\ err \in {ErrNoInitial, ErrNoTerminal}) =>
          steps = <<[step |-> "start", err |-> nil]>>
    /\ (arg = "nfa" /\ Len(steps) > 1) =>
          /\ StepNames[1] = "start"
          /\ StepNames[2] = "create-initial-terminal"
          /\ \A k \in 3..Len(steps) :
                StepNames[k] \in {RemoveStepName(n) : n \in NodeNames}
          /\ HasInitial(Before)
          /\ HasTerminal(Before)
    /\ ( /\ Returned
         /\ ~ObserverFailed(steps)
         /\ ~HasInitial(Before)
         /\ ~HasTerminal(Before) )
       => (res = <<>> /\ err = "NFA has no initial node(s)")
    /\ (arg = "nfa" /\ Len(steps) > 0 /\ steps[1].err # nil) =>
          /\ pc = "done"
          /\ Len(steps) = 1
          /\ res = <<>>
          /\ err = StepCallbackError("start", steps[1].err)

\* a conversion of an automaton with edges and neither an initial nor a
\* terminal node has returned after a "start" checkpoint that passed
C28_Witness ==
    /\ Returned
    /\ Len(Before.Edges) > 0
    /\ ~HasInitial(Before)
    /\ ~HasTerminal(Before)
    /\ steps = <<[step |-> "start", err |-> nil]>>

-----------------------------------------------------------------------------
(* C24 *)

\* every key of m's node map is the name of the record it maps to, and every
\* edge of m starts and ends at the record registered under the name of that
\* endpoint
WellFormed(m) ==
    /\ \A n \in DOMAIN m.Nodes :
          /\ m.Nodes[n] \in 1..Len(m.heap)
          /\ m.heap[m.Nodes[n]].Name = n
    /\ \A k \in 1..Len(m.Edges) :
          /\ m.Edges[k].SrcNode \in 1..Len(m.heap)
          /\ m.Edges[k].DstNode \in 1..Len(m.heap)
          /\ Lookup(m.Nodes, m.heap[m.Edges[k].SrcNode].Name) = m.Edges[k].SrcNode
          /\ Lookup(m.Nodes, m.heap[m.Edges[k].DstNode].Name) = m.Edges[k].DstNode

\* C24: the automaton the caller builds from NewNFA with AddEdge, RemoveNode
\* and same-name ReplaceNode calls is well-formed after every call, and so is
\* the working copy of a conversion at every checkpoint: each edge's source
\* and destination are the records registered in the node map under their own
\* names, and each key of the map is the name of the record it maps to.
C24_EdgeEndpoints ==
    /\ pc = "idle" => WellFormed(Caller)
    /\ (arg = "nfa" /\ Len(steps) > 0) => WellFormed(Work)

\* a conversion has reached a "remove-node-<name>" checkpoint on an automaton
\* whose last change was the replacement of a node that had edges
C24_Witness ==
    /\ arg = "nfa"
    /\ Len(steps) > 2
    /\ app.fn = "ReplaceNode"
    /\ app.args[1] \in DOMAIN app.pre.Nodes
    /\ \E k \in 1..Len(app.pre.Edges) :
          app.pre.Edges[k].SrcNode = app.pre.Nodes[app.args[1]]

-----------------------------------------------------------------------------
(* C25 *)

\* C25: after ReplaceNode(name, newNode) the node map holds newNode under
\* name and is otherwise what it was; the edge list has the same length, each
\* edge keeps its label and its position, an endpoint that was the old record
\* is newNode (both endpoints of a self-loop on the old record) and every
\* other endpoint is what it was; no record that existed before the call is
\* modified, so an automaton that shares them sees no change.
C25_ReplaceNode ==
    app.fn = "ReplaceNode" =>
        LET name == app.args[1]
            pre == app.pre
            post == app.post
            old == Lookup(pre.Nodes, name)
            new == Lookup(post.Nodes, name)
            moved(node) == IF node = old THEN new ELSE node
        IN  /\ new \in 1..Len(post.heap)
            /\ new \notin 1..Len(pre.heap)
            /\ post.heap[new] = app.args[2]
            /\ DOMAIN post.Nodes = DOMAIN pre.Nodes \cup {name}
            /\ \A other \in DOMAIN pre.Nodes \ {name} :
                  post.Nodes[other] = pre.Nodes[other]
            /\ Len(post.Edges) = Len(pre.Edges)
            /\ \A k \in 1..Len(pre.Edges) :
                  /\ post.Edges[k].Value = pre.Edges[k].Value
                  /\ post.Edges[k].SrcNode = moved(pre.Edges[k].SrcNode)
                  /\ post.Edges[k].DstNode = moved(pre.Edges[k].DstNode)
            /\ SubSeq(post.heap, 1, Len(pre.heap)) = pre.heap

\* ReplaceNode has replaced, by a record with other flags, a registered node
\* that has a self-loop and an edge to another node
C25_Witness ==
    /\ app.fn = "ReplaceNode"
    /\ pc = "idle"
    /\ app.args[1] \in DOMAIN app.pre.Nodes
    /\ app.pre.heap[app.pre.Nodes[app.args[1]]] # app.args[2]
    /\ \E j, k \in 1..Len(app.pre.Edges) :
          /\ app.pre.Edges[j].SrcNode = app.pre.Nodes[app.args[1]]
          /\ app.pre.Edges[j].DstNode = app.pre.Nodes[app.args[1]]
          /\ app.pre.Edges[k].SrcNode = app.pre.Nodes[app.args[1]]
          /\ app.pre.Edges[k].DstNode # app.pre.Nodes[app.args[1]]

-----------------------------------------------------------------------------
(* C26 *)

\* C26: after RemoveNode(name) the node map has no entry for name and is
\* otherwise what it was, the node records are what they were, and the edge
\* list holds, in their previous order, exactly the previous edges with
\* neither endpoint at the removed node; when name was not registered the
\* node map and the edge list are what they were.
C26_RemoveNode ==
    app.fn = "RemoveNode" =>
        LET name == app.args[1]
            pre == app.pre
            post == app.post
            node == Lookup(pre.Nodes, name)
        IN  /\ name \notin DOMAIN post.Nodes
            /\ DOMAIN post.Nodes = DOMAIN pre.Nodes \ {name}
            /\ \A other \in DOMAIN post.Nodes :
                  post.Nodes[other] = pre.Nodes[other]
            /\ post.heap = pre.heap
            /\ post.Edges = SelectSeq(pre.Edges,
                   LAMBDA e : e.SrcNode # node /\ e.DstNode # node)
            /\ name \notin DOMAIN pre.Nodes =>
                  post.Nodes = pre.Nodes /\ post.Edges = pre.Edges

\* RemoveNode has removed a node with an edge from another node, from an
\* automaton that keeps an edge
C26_Witness ==
    /\ app.fn = "RemoveNode"
    /\ pc = "idle"
    /\ app.args[1] \in DOMAIN app.pre.Nodes
    /\ Len(app.post.Edges) > 0
    /\ \E k \in 1..Len(app.pre.Edges) :
          /\ app.pre.Edges[k].DstNode = app.pre.Nodes[app.args[1]]
          /\ app.pre.Edges[k].SrcNode # app.pre.Nodes[app.args[1]]

-----------------------------------------------------------------------------
(* C27 *)

\* C27: after AddEdge(src, dst, label) src and dst are registered; a name
\* that was absent maps to one new record with that name and both flags
\* false (one record when src = dst), the registered nodes and all records
\* are what they were, and the edge list is the previous one followed by one
\* edge from src's node to dst's node with the label, also when the
\* automaton already had such an edge.
C27_AddEdge ==
    app.fn = "AddEdge" =>
        LET src == app.args[1]
            dst == app.args[2]
            pre == app.pre
            post == app.post
            absent == {src, dst} \ DOMAIN pre.Nodes
        IN  /\ DOMAIN post.Nodes = DOMAIN pre.Nodes \cup {src, dst}
            /\ \A n \in DOMAIN pre.Nodes : post.Nodes[n] = pre.Nodes[n]
            /\ SubSeq(post.heap, 1, Len(pre.heap)) = pre.heap
            /\ Len(post.heap) = Len(pre.heap) + Cardinality(absent)
            /\ \A n \in absent :
                  /\ post.Nodes[n] > Len(pre.heap)
                  /\ post.heap[post.Nodes[n]]
                         = [Name |-> n, IsInitial |-> FALSE, IsTerminal |-> FALSE]
            /\ post.Edges = Append(pre.Edges,
                                   [SrcNode |-> post.Nodes[src],
                                    DstNode |-> post.Nodes[dst],
                                    Value |-> app.args[3]])

\* AddEdge has added an edge a second time, between nodes one of which is
\* flagged
C27_Witness ==
    /\ app.fn = "AddEdge"
    /\ pc = "idle"
    /\ \E k \in 1..Len(app.pre.Edges) :
          app.pre.Edges[k] = app.post.Edges[Len(app.post.Edges)]
    /\ \E n \in DOMAIN app.pre.Nodes : app.pre.heap[app.pre.Nodes[n]].IsInitial

=============================================================================
